---------------------------- MODULE Spec2Model ----------------------------
(***************************************************************************)
(* The poll block's edit component (src/client/blocks/poll/edit.js) as a   *)
(* state machine: the persisted block attributes, the props the host       *)
(* editor supplies, the component's two useState cells, and the            *)
(* render / effect cycle of withPollAndAnswerIds( PollBlock ).             *)
(***************************************************************************)
EXTENDS Naturals, Sequences, FiniteSets

(* ------------------------------ bounds -------------------------------- *)

\* The clock reading of the editing session (isPollClosed reads the clock).
Now == 2

\* The first identifier uuidv4 hands out in the session: the smaller ones are
\* the identifiers a saved block brings along.
FirstFreshUuid == 4

(* ----------------------------- constants ------------------------------ *)

\* A null / undefined identifier (attributes.js: default null).
NoId == 0

\* The texts a rich-text field can hold; "" also stands for an absent field.
QuestionTexts == { "", "q" }
NoteTexts == { "", "n" }
AnswerTexts == { "", "a" }
ErrorTexts == { "", "failed" }

\* ./constants, PollStatus and ClosedPollState (the two-valued enums).
PollStatusOpen == "open"
PollStatusClosed == "closed"
ShowResultsState == "show-results"
HiddenState == "hidden"

\* The closed-after timestamps a saved block can carry: null, a past and a coming time.
NoTime == 0
ClosedAfterTimes == { NoTime, 1, 3 }

\* attributes.js: answers default [ {}, {}, {} ]
BlankAnswer == [ text |-> "", answerId |-> NoId ]
DefaultAnswers == << BlankAnswer, BlankAnswer, BlankAnswer >>

\* attributes.js: the defaults of the fields the component reads.
DefaultAttributes ==
    [ pollId |-> NoId,
      question |-> "",
      note |-> "",
      answers |-> DefaultAnswers,
      pollStatus |-> PollStatusOpen,
      closedPollState |-> ShowResultsState,
      closedAfterDateTime |-> NoTime ]

\* A block read back from a saved document: ids 1..3 were minted before.
SavedAnswerSeqs ==
    { << [ text |-> "a", answerId |-> 2 ], [ text |-> "a", answerId |-> 3 ] >>,
      << [ text |-> "a", answerId |-> 2 ], BlankAnswer >>,
      << [ text |-> "", answerId |-> 2 ], [ text |-> "a", answerId |-> 3 ], BlankAnswer >> }

SavedAttributes ==
    { [ DefaultAttributes EXCEPT !.pollId = 1, !.question = "q", !.answers = s,
                                 !.closedAfterDateTime = ca ] :
        s \in SavedAnswerSeqs, ca \in ClosedAfterTimes }

\* The poll data store before the fetch resolves: no record (null).
NoApi == [ present |-> FALSE, id |-> NoId, viewResultsUrl |-> "", answers |-> {} ]

(* ------------------------------- state -------------------------------- *)

VARIABLES
    attributes,      \* props.attributes: the host's attribute store for this block
    isSelected,      \* props.isSelected
    apiStore,        \* crowdsignal-forms/polls store record for this poll
    post,            \* core/editor getCurrentPost(): status and content
    isPollEditable,  \* useState( true )
    errorMessage,    \* useState( '' )
    mounted,         \* the component has rendered at least once
    depSelected,     \* the [ isSelected ] dependency of the last committed lock effect
    pending,         \* a state / prop change waits for its re-render
    view,            \* what the last render put on screen
    nextUuid,        \* uuidv4: the next identifier never handed out before
    writes,          \* setAttributes calls issued by the last identifier pass
    acted,           \* history: the user or the host acted since the mount
    unlocked         \* history: the user invoked "edit anyway" in this session

vars == << attributes, isSelected, apiStore, post, isPollEditable, errorMessage,
           mounted, depSelected, pending, view, nextUuid, writes, acted, unlocked >>

(* --------------------- withPollAndAnswerIds (pass) -------------------- *)

\* uuidv4(): the n-th identifier handed out; never empty, never repeated.
uuidv4(n) == n

\* ( a ) => ! a.answerId && a.text
NeedsAnswerId(a) == a.answerId = NoId /\ a.text # ""

\* Mutant: the some() test forgets "&& a.text".
SomeLacksAnswerId(answers) == \E i \in 1..Len(answers) : answers[i].answerId = NoId

\* some( attributes.answers, ( a ) => ! a.answerId && a.text )
SomeNeedsAnswerId(answers) == \E i \in 1..Len(answers) : NeedsAnswerId(answers[i])

\* Mutant: the poll id is generated without the "if ( ! attributes.pollId )" guard.
NeedsPollIdAlways(attrs) == TRUE

\* ! attributes.pollId
NeedsPollId(attrs) == attrs.pollId = NoId

\* uuidv4 calls made by map() before it reaches position i
CallsBefore(answers, i) == Cardinality({ j \in 1..(i - 1) : NeedsAnswerId(answers[j]) })

\* Mutant: map() forgets "|| ! answer.text" and gives empty answers an id too.
MapAnswersIgnoringText(answers, u) ==
    [ i \in 1..Len(answers) |->
        IF answers[i].answerId # NoId
        THEN answers[i]
        ELSE [ answers[i] EXCEPT !.answerId = uuidv4(u + i) ] ]

\* Mutant: map() returns { answerId } without "...answer" and loses the text.
MapAnswersDroppingFields(answers, u) ==
    [ i \in 1..Len(answers) |->
        IF answers[i].answerId # NoId \/ answers[i].text = ""
        THEN answers[i]
        ELSE [ text |-> "", answerId |-> uuidv4(u + CallsBefore(answers, i)) ] ]

\* map( attributes.answers, ( answer ) => ... ) with u the next fresh uuid
MapAnswers(answers, u) ==
    [ i \in 1..Len(answers) |->
        IF answers[i].answerId # NoId \/ answers[i].text = ""
        THEN answers[i]
        ELSE [ answers[i] EXCEPT !.answerId = uuidv4(u + CallsBefore(answers, i)) ] ]

\* The uuid the answers map starts from: one was taken for the poll id if it was unset.
AnswersUuidStart(attrs, u) == IF NeedsPollId(attrs) THEN u + 1 ELSE u

\* The attributes after the host merged the patches of one effect run.
PassAttributes(attrs, u) ==
    [ attrs EXCEPT
        !.pollId = IF NeedsPollId(attrs) THEN uuidv4(u) ELSE @,
        !.answers = IF SomeNeedsAnswerId(@)
                    THEN MapAnswers(@, AnswersUuidStart(attrs, u))
                    ELSE @ ]

\* The number of setAttributes calls of one effect run.
PassWrites(attrs) ==
    (IF NeedsPollId(attrs) THEN 1 ELSE 0)
    + (IF SomeNeedsAnswerId(attrs.answers) THEN 1 ELSE 0)

\* The uuids one effect run consumes.
PassUuids(attrs) ==
    (IF NeedsPollId(attrs) THEN 1 ELSE 0)
    + Cardinality({ i \in 1..Len(attrs.answers) : NeedsAnswerId(attrs.answers[i]) })

(* -------------------------- PollBlock (render) ------------------------ *)

\* withSelect: attributes.pollId ? getPollDataByClientId( pollId ) : null
pollDataFromApi(attrs, store) == IF attrs.pollId # NoId THEN store ELSE NoApi

\* pollDataFromApi ? pollDataFromApi.viewResultsUrl : ''
viewResultsUrl(api) == IF api.present THEN api.viewResultsUrl ELSE ""

\* pollDataFromApi ? pollDataFromApi.id : null
pollIdFromApi(api) == IF api.present THEN api.id ELSE NoId

\* answerIdMap[ answer.client_id ] = answer.id
answerIdMap(api) ==
    IF api.present
    THEN [ c \in { a.client_id : a \in api.answers } |->
             (CHOOSE a \in api.answers : a.client_id = c).id ]
    ELSE << >>

\* ./util isPollClosed: closed, or a closed-after time that is not in the future.
isPollClosed(pollStatus, closedAfterDateTime, now) ==
    pollStatus = PollStatusClosed
    \/ (closedAfterDateTime # NoTime /\ closedAfterDateTime <= now)

\* ./util pollIdExistsInPageContent: the id string occurs in the raw content.
pollIdExistsInPageContent(pollId, content) == pollId # NoId /\ pollId \in content

\* 'publish' === postDetails.status && pollIdExistsInPageContent( ... )
wasBlockAddedBeforeLastPublish(attrs, p) ==
    p.status = "publish" /\ pollIdExistsInPageContent(attrs.pollId, p.content)

\* isClosed && ClosedPollState.SHOW_RESULTS === attributes.closedPollState
showResults(isClosed, attrs) == isClosed /\ ShowResultsState = attrs.closedPollState

\* Mutant: isHidden forgets "isClosed &&".
isHiddenIgnoringClosed(isClosed, attrs) == HiddenState = attrs.closedPollState

\* isClosed && ClosedPollState.HIDDEN === attributes.closedPollState
isHidden(isClosed, attrs) == isClosed /\ HiddenState = attrs.closedPollState

\* attributes.note || ( isSelected && isPollEditable )
showNote(attrs, selected, editable) == attrs.note # "" \/ (selected /\ editable)

\* isSelected && wasBlockAddedBeforeLastPublish && ! isPollEditable
showEditBar(selected, wasAdded, editable) == selected /\ wasAdded /\ ~editable

\* Mutant: the question is a RichText input whatever isPollEditable is.
questionAlwaysInput(editable) == TRUE

\* { isPollEditable ? <RichText onChange={ handleChangeQuestion } /> : <h3> }
questionIsInput(editable) == editable

\* { showNote && ( isPollEditable ? <RichText onChange={ handleChangeNote } /> : <p> ) }
noteIsInput(shown, editable) == shown /\ editable

\* Mutant: the answers editor is rendered without the "! showResults &&" test.
editAnswersAlwaysShown(results) == TRUE

\* { ! showResults && <EditAnswers disabled={ ! isPollEditable } /> }
editAnswersShown(results) == ~results

\* disabled={ ! isPollEditable }
editAnswersDisabled(editable) == ~editable

\* The element tree one call of PollBlock returns, with the values it read.
RenderView(attrs, selected, editable, error, store, p, now) ==
    LET api == pollDataFromApi(attrs, store)
        isClosed == isPollClosed(attrs.pollStatus, attrs.closedAfterDateTime, now)
        wasAdded == wasBlockAddedBeforeLastPublish(attrs, p)
        results == showResults(isClosed, attrs)
        noteShown == showNote(attrs, selected, editable)
    IN  [ attributes |-> attrs,
          isClosed |-> isClosed,
          showResults |-> results,
          isHidden |-> isHidden(isClosed, attrs),
          isPollEditable |-> editable,
          isSelected |-> selected,
          wasAdded |-> wasAdded,
          showEditBar |-> showEditBar(selected, wasAdded, editable),
          questionInput |-> questionIsInput(editable),
          noteShown |-> noteShown,
          noteInput |-> noteIsInput(noteShown, editable),
          answersShown |-> editAnswersShown(results),
          answersDisabled |-> editAnswersDisabled(editable),
          pollResults |-> results,
          closedBanner |-> isClosed,
          errorBanner |-> error # "",
          apiPresent |-> api.present,
          viewResultsUrl |-> viewResultsUrl(api),
          pollIdFromApi |-> pollIdFromApi(api),
          answerIdMap |-> answerIdMap(api) ]

\* Nothing is on screen before the first render.
NoView == RenderView(DefaultAttributes, FALSE, FALSE, "", NoApi,
                     [ status |-> "draft", content |-> {} ], Now)

\* Mutant: the lock effect has no dependency list and runs after every render.
LockEffectRunsEveryRender(isMounted, dep, selected) == TRUE

\* Mutant: the lock effect has the dependency list [] and runs on mount only.
LockEffectRunsOnMountOnly(isMounted, dep, selected) == ~isMounted

\* useEffect( () => setIsPollEditable( ! wasBlockAddedBeforeLastPublish ), [ isSelected ] )
LockEffectRuns(isMounted, dep, selected) == ~isMounted \/ dep # selected

\* Mutant: the lock effect does not run on mount, only when isSelected changes.
EditableAfterEffectsNotOnMount(isMounted, dep, selected, editable, wasAdded) ==
    IF isMounted /\ dep # selected THEN ~wasAdded ELSE editable

\* The value of isPollEditable once the effects of a render have run.
EditableAfterEffects(isMounted, dep, selected, editable, wasAdded) ==
    IF LockEffectRuns(isMounted, dep, selected) THEN ~wasAdded ELSE editable

(* ------------------------------ actions ------------------------------- *)

Init ==
    /\ attributes \in { DefaultAttributes } \cup SavedAttributes
    /\ isSelected \in BOOLEAN
    /\ apiStore = NoApi
    /\ post \in { [ status |-> s, content |-> c ] :
                    s \in { "draft", "publish" },
                    c \in { {}, { attributes.pollId } \ { NoId } } }
    /\ isPollEditable = TRUE
    /\ errorMessage = ""
    /\ mounted = FALSE
    /\ depSelected = FALSE
    /\ pending = TRUE
    /\ view = NoView
    /\ nextUuid = FirstFreshUuid
    /\ writes = 0
    /\ acted = FALSE
    /\ unlocked = FALSE

\* One render of withPollAndAnswerIds( PollBlock ) with the props and state cells
\* given, and the effects it commits: the PollBlock lock effect (the child's effects
\* run first), then the wrapper's identifier pass, whose patches the host merges
\* into the attribute store. A change of a state cell or of the store asks for
\* one more render.
RenderWith(attrs, selected, editable, error, store, now) ==
    /\ view' = RenderView(attrs, selected, editable, error, store, post, now)
    /\ isSelected' = selected
    /\ errorMessage' = error
    /\ apiStore' = store
    /\ isPollEditable' = EditableAfterEffects(mounted, depSelected, selected, editable,
                             wasBlockAddedBeforeLastPublish(attrs, post))
    /\ depSelected' = selected
    /\ mounted' = TRUE
    /\ attributes' = PassAttributes(attrs, nextUuid)
    /\ writes' = PassWrites(attrs)
    /\ nextUuid' = nextUuid + PassUuids(attrs)
    /\ pending' = (isPollEditable' # editable \/ PassWrites(attrs) > 0)
    /\ UNCHANGED post

\* A render nothing but the host asked for (the mount, a parent's re-render), or
\* the re-render an effect's setAttributes / setIsPollEditable asked for.
Render ==
    /\ RenderWith(attributes, isSelected, isPollEditable, errorMessage, apiStore, Now)
    /\ UNCHANGED << acted, unlocked >>

\* A handler runs only on a settled screen: React flushes the effects and the
\* re-render they ask for before it dispatches the next event.
Settled == mounted /\ ~pending

\* handleChangeQuestion = ( question ) => setAttributes( { question } ),
\* and the render the new attributes cause.
handleChangeQuestion(question) ==
    /\ Settled
    /\ view.questionInput
    /\ RenderWith([ attributes EXCEPT !.question = question ], isSelected,
                  isPollEditable, errorMessage, apiStore, Now)
    /\ acted' = TRUE
    /\ UNCHANGED unlocked

\* handleChangeNote = ( note ) => setAttributes( { note } )
handleChangeNote(note) ==
    /\ Settled
    /\ view.noteInput
    /\ RenderWith([ attributes EXCEPT !.note = note ], isSelected,
                  isPollEditable, errorMessage, apiStore, Now)
    /\ acted' = TRUE
    /\ UNCHANGED unlocked

\* onEditClick={ () => { setIsPollEditable( true ); } }
onEditClick ==
    /\ Settled
    /\ view.showEditBar
    /\ RenderWith(attributes, isSelected, TRUE, errorMessage, apiStore, Now)
    /\ acted' = TRUE
    /\ unlocked' = TRUE

\* ./edit-answers, an answer's text field: setAttributes( { answers } ) with the
\* text of answer i replaced; every other field of the answer is kept. The
\* editor takes no input while it is disabled.
handleChangeAnswer(i, text) ==
    /\ Settled
    /\ view.answersShown
    /\ ~view.answersDisabled
    /\ i \in 1..Len(attributes.answers)
    /\ RenderWith([ attributes EXCEPT !.answers[i].text = text ], isSelected,
                  isPollEditable, errorMessage, apiStore, Now)
    /\ acted' = TRUE
    /\ UNCHANGED unlocked

\* ./sidebar, the poll status control: setAttributes( { pollStatus } ).
setPollStatus(pollStatus) ==
    /\ Settled
    /\ pollStatus # attributes.pollStatus
    /\ RenderWith([ attributes EXCEPT !.pollStatus = pollStatus ],
                  isSelected, isPollEditable, errorMessage, apiStore, Now)
    /\ acted' = TRUE
    /\ UNCHANGED unlocked

\* ./sidebar, the closed poll state control: setAttributes( { closedPollState } ).
setClosedPollState(closedPollState) ==
    /\ Settled
    /\ closedPollState # attributes.closedPollState
    /\ RenderWith([ attributes EXCEPT !.closedPollState = closedPollState ],
                  isSelected, isPollEditable, errorMessage, apiStore, Now)
    /\ acted' = TRUE
    /\ UNCHANGED unlocked

\* The host selects or deselects the block: props.isSelected flips.
SelectionChange ==
    /\ Settled
    /\ RenderWith(attributes, ~isSelected, isPollEditable, errorMessage, apiStore, Now)
    /\ acted' = TRUE
    /\ UNCHANGED unlocked

\* The record the server holds for the poll: the answers saved with the document,
\* each client id with the id the server gave it.
ApiSnapshot ==
    [ present |-> TRUE,
      id |-> 7,
      viewResultsUrl |-> "url",
      answers |-> { [ client_id |-> 2, id |-> 12 ], [ client_id |-> 3, id |-> 13 ] } ]

\* The poll data store resolves, refreshes or drops the record of this poll.
ApiChange(data) ==
    /\ Settled
    /\ data # apiStore
    /\ RenderWith(attributes, isSelected, isPollEditable, errorMessage, data, Now)
    /\ acted' = TRUE
    /\ UNCHANGED unlocked

\* <PollResults setErrorMessage={ setErrorMessage } />: the results view reports.
setErrorMessage(message) ==
    /\ Settled
    /\ view.pollResults
    /\ message # errorMessage
    /\ RenderWith(attributes, isSelected, isPollEditable, message, apiStore, Now)
    /\ acted' = TRUE
    /\ UNCHANGED unlocked

\* The host saves the document: getCurrentPost() then returns the new status and
\* a content that holds the block's serialized attributes. No prop of the block
\* changes, so no render is asked for.
SavePost(status) ==
    /\ Settled
    /\ post' = [ status |-> status, content |-> { attributes.pollId } \ { NoId } ]
    /\ acted' = TRUE
    /\ UNCHANGED << attributes, isSelected, apiStore, isPollEditable, errorMessage,
                    mounted, depSelected, pending, view, nextUuid, writes, unlocked >>

Next ==
    \/ Render
    \/ \E q \in QuestionTexts : handleChangeQuestion(q)
    \/ \E n \in NoteTexts : handleChangeNote(n)
    \/ \E i \in 1..Len(attributes.answers), t \in AnswerTexts :
          handleChangeAnswer(i, t)
    \/ \E st \in { PollStatusOpen, PollStatusClosed } : setPollStatus(st)
    \/ \E cps \in { ShowResultsState, HiddenState } : setClosedPollState(cps)
    \/ SelectionChange
    \/ \E d \in { NoApi, ApiSnapshot } : ApiChange(d)
    \/ \E m \in ErrorTexts : setErrorMessage(m)
    \/ \E s \in { "draft", "publish" } : SavePost(s)
    \/ onEditClick

Spec == Init /\ [][Next]_vars

(* ------------------------- definitions for the claims ----------------- *)

\* The free texts of the attributes: question, note and each answer's text.
Texts(attrs) ==
    << attrs.question, attrs.note,
       [ i \in 1..Len(attrs.answers) |-> attrs.answers[i].text ] >>

\* The attributes with every generated identifier blanked.
StripIds(attrs) ==
    [ attrs EXCEPT !.pollId = NoId,
                   !.answers = [ i \in 1..Len(@) |-> [ @[i] EXCEPT !.answerId = NoId ] ] ]

\* The last render's pass ran on view.attributes and left attributes.
PassIn == view.attributes.answers
PassOut == attributes.answers

(* C1: pollId is generated once and never reassigned: in every step, a pollId  *)
(* that is set keeps its value; and the pass of the first render of a block    *)
(* whose pollId is unset sets it to a non-empty value with one setAttributes.  *)
C1_PollIdGeneratedOnce ==
    [][ /\ attributes.pollId # NoId => attributes'.pollId = attributes.pollId
        /\ (attributes.pollId = NoId /\ mounted')
              => (attributes'.pollId # NoId /\ writes' >= 1) ]_vars

C1_Witness ==
    /\ attributes.pollId = FirstFreshUuid
    /\ acted
    /\ attributes.question = "q"
    /\ isSelected

(* C2: one identifier pass keeps the length, the order and every text of the   *)
(* answers; an answer that had an id is unchanged; an answer with text and no  *)
(* id has an id afterwards; an answer with empty text and no id still has none.*)
C2_AnswerIdsAssigned ==
    mounted =>
        /\ Len(PassOut) = Len(PassIn)
        /\ \A i \in 1..Len(PassIn) :
              /\ PassOut[i].text = PassIn[i].text
              /\ PassIn[i].answerId # NoId => PassOut[i] = PassIn[i]
              /\ (PassIn[i].answerId = NoId /\ PassIn[i].text # "")
                    => PassOut[i].answerId # NoId
              /\ (PassIn[i].answerId = NoId /\ PassIn[i].text = "")
                    => PassOut[i].answerId = NoId

C2_Witness ==
    /\ mounted
    /\ \E i \in 1..Len(PassIn) : NeedsAnswerId(PassIn[i]) /\ PassOut[i].answerId # NoId
    /\ \E i \in 1..Len(PassIn) : PassIn[i] = BlankAnswer /\ PassOut[i] = BlankAnswer
    /\ \E i \in 1..Len(PassIn) : PassIn[i].answerId # NoId /\ PassOut[i] = PassIn[i]

(* C3: the pass is idempotent: a pass that finds pollId set and no answer with *)
(* text and no id calls setAttributes not once and leaves the attributes as    *)
(* they are; and a pass that runs on the stored attributes of a mounted block  *)
(* (one pass was applied, no user edit since) writes nothing.                  *)
C3_PassIdempotent ==
    /\ [] ( (mounted /\ view.attributes.pollId # NoId
                     /\ ~SomeNeedsAnswerId(view.attributes.answers))
               => (writes = 0 /\ attributes = view.attributes) )
    /\ [][ (mounted /\ view'.attributes = attributes)
               => (attributes' = attributes /\ writes' = 0) ]_vars

C3_Witness ==
    /\ Settled
    /\ writes = 0
    /\ attributes.pollId = FirstFreshUuid
    /\ \E i \in 1..Len(attributes.answers) :
          attributes.answers[i].answerId > FirstFreshUuid
    /\ \E i \in 1..Len(attributes.answers) : attributes.answers[i] = BlankAnswer

(* C4, as the claim states it: in a published document whose content holds the *)
(* poll id, isPollEditable is false from its initial state, so that every      *)
(* render before any user action, the first one included, reads it as false.   *)
C4_Original ==
    (~acted /\ mounted /\ wasBlockAddedBeforeLastPublish(attributes, post))
        => ~view.isPollEditable

(* C4, amended: isPollEditable starts true and the first render shows the      *)
(* editable fields; the mount effect sets it to false in a published document  *)
(* whose content holds the poll id, so it is false from the first render's     *)
(* effects on and on the settled screen, before any user action. In a draft    *)
(* document it is true throughout, whatever the content.                       *)
C4_LockedAfterMountEffect ==
    /\ (~acted /\ mounted /\ wasBlockAddedBeforeLastPublish(attributes, post))
          => ~isPollEditable
    /\ (~acted /\ Settled /\ wasBlockAddedBeforeLastPublish(attributes, post))
          => (~view.isPollEditable /\ ~view.questionInput /\ ~view.noteInput)
    /\ (~acted /\ post.status = "draft") => isPollEditable

C4_Witness ==
    /\ ~acted
    /\ Settled
    /\ wasBlockAddedBeforeLastPublish(attributes, post)
    /\ ~isPollEditable
    /\ ~view.questionInput

(* C5, as the claim states it: once the user has invoked the unlock action,    *)
(* isPollEditable is true in every later state of the session.                 *)
C5_Original == unlocked => isPollEditable

(* C5, amended: the unlock action makes the block editable, and it stays       *)
(* editable through every later render, attribute edit, save and API arrival   *)
(* as long as the isSelected flag does not change.                             *)
C5_EditableUntilSelectionChange ==
    [][ /\ onEditClick => (isPollEditable' /\ unlocked')
        /\ (unlocked /\ isPollEditable /\ isSelected' = isSelected) => isPollEditable' ]_vars

C5_Witness ==
    /\ unlocked
    /\ isPollEditable
    /\ Settled
    /\ view.questionInput
    /\ wasBlockAddedBeforeLastPublish(attributes, post)
    /\ attributes.note = "n"

(* C6: in every render showResults is true iff isClosed and closedPollState is *)
(* "show results", isHidden is true iff isClosed and closedPollState is        *)
(* "hidden"; they are never both true, and neither is true while isClosed is   *)
(* false.                                                                      *)
C6_ClosedFlags ==
    mounted =>
        /\ view.showResults
              <=> (view.isClosed /\ view.attributes.closedPollState = ShowResultsState)
        /\ view.isHidden
              <=> (view.isClosed /\ view.attributes.closedPollState = HiddenState)
        /\ ~(view.showResults /\ view.isHidden)
        /\ ~view.isClosed => (~view.showResults /\ ~view.isHidden)

C6_Witness ==
    /\ mounted
    /\ view.isClosed
    /\ view.isHidden
    /\ ~view.showResults
    /\ ~view.isPollEditable
    /\ view.apiPresent

(* C7: a render in which isSelected has changed, on a block whose document is  *)
(* published with the poll id in its content, leaves isPollEditable false,     *)
(* also after an unlock; a step in which isSelected has not changed and that   *)
(* is not the unlock action leaves isPollEditable as it is.                    *)
C7_RelockOnSelectionChange ==
    [][ /\ (mounted /\ isSelected' # isSelected
                    /\ wasBlockAddedBeforeLastPublish(attributes, post))
              => ~isPollEditable'
        /\ (mounted /\ isSelected' = isSelected /\ ~onEditClick)
              => isPollEditable' = isPollEditable ]_vars

C7_Witness ==
    /\ unlocked
    /\ ~isPollEditable
    /\ ~isSelected
    /\ wasBlockAddedBeforeLastPublish(attributes, post)

(* C8, as the claim states it: in every render of a closed poll the question   *)
(* and the note are not editable inputs.                                       *)
C8_Original ==
    (mounted /\ view.isClosed) => (~view.questionInput /\ ~view.noteInput)

(* C8, amended: closed-poll rendering takes precedence over the answers editor *)
(* only: in every render that shows the results the answers editor is not      *)
(* rendered, whatever isPollEditable; the question is an editable input        *)
(* exactly when isPollEditable is true and the note exactly when it is shown   *)
(* and isPollEditable is true, also while the poll is closed.                  *)
C8_ResultsReplaceAnswersOnly ==
    mounted =>
        /\ view.showResults => (~view.answersShown /\ view.pollResults)
        /\ ~view.showResults => (view.answersShown /\ ~view.pollResults)
        /\ view.questionInput <=> view.isPollEditable
        /\ view.noteInput <=> (view.noteShown /\ view.isPollEditable)
        /\ view.closedBanner <=> view.isClosed

C8_Witness ==
    /\ mounted
    /\ view.isClosed
    /\ view.showResults
    /\ ~view.answersShown
    /\ view.showEditBar

(* C9: while isPollEditable is false the render has no input for the question  *)
(* or the note and the answers editor is disabled; no step taken from such a   *)
(* state changes the question, the note or an answer's text; and the unlock    *)
(* action is on screen exactly when the render found the block selected,       *)
(* added before the last publish and not editable.                             *)
C9_LockedTextsFrozen ==
    /\ [] ( mounted =>
              /\ ~view.isPollEditable
                    => (~view.questionInput /\ ~view.noteInput
                        /\ (view.answersShown => view.answersDisabled))
              /\ view.showEditBar
                    <=> (view.isSelected /\ view.wasAdded /\ ~view.isPollEditable) )
    /\ [][ ~isPollEditable => Texts(attributes') = Texts(attributes) ]_vars

C9_Witness ==
    /\ ~isPollEditable
    /\ Settled
    /\ acted
    /\ view.showEditBar
    /\ view.answersShown
    /\ view.answersDisabled

(* C10: a step of the unlock action, of the lock re-evaluation, of an error    *)
(* message update or of a change of the API snapshot hands the stored          *)
(* attributes to the render as they are; what a render's pass then writes      *)
(* differs from what it read in pollId and answerId only; and without a        *)
(* snapshot the render reads an empty results URL, a null poll id and an       *)
(* empty answer-id map.                                                        *)
C10_FrameOfOwnTransitions ==
    /\ [] ( mounted =>
              /\ StripIds(attributes) = StripIds(view.attributes)
              /\ ~view.apiPresent
                    => (view.viewResultsUrl = "" /\ view.pollIdFromApi = NoId
                        /\ view.answerIdMap = << >>) )
    /\ [][ (mounted /\ (\/ isPollEditable' # isPollEditable
                        \/ onEditClick
                        \/ isSelected' # isSelected
                        \/ errorMessage' # errorMessage
                        \/ apiStore' # apiStore))
              => (view'.attributes = attributes /\ attributes' = attributes) ]_vars

C10_Witness ==
    /\ Settled
    /\ unlocked
    /\ errorMessage = "failed"
    /\ apiStore = ApiSnapshot
    /\ view.apiPresent
    /\ attributes.pollId # NoId


=============================================================================
